---------------------------- MODULE Spec2Model ----------------------------
(***************************************************************************)
(* A model of rename.py: the TMDb video renamer.                           *)
(*                                                                         *)
(* Text (file names, titles, show names, inference responses) is modelled  *)
(* as sequences of one-character strings, so that the regular expressions, *)
(* the f-string formatting and the path comparisons of the script are      *)
(* computed character by character rather than assumed.                    *)
(***************************************************************************)
EXTENDS Integers, Sequences, FiniteSets, TLC

(***************************************************************************)
(* Characters and the string primitives of Python used by the script.      *)
(***************************************************************************)
Digits == <<"0", "1", "2", "3", "4", "5", "6", "7", "8", "9">>

UpperCase == <<"A", "B", "C", "D", "E", "F", "G", "H", "I", "J", "K", "L", "M",
               "N", "O", "P", "Q", "R", "S", "T", "U", "V", "W", "X", "Y", "Z">>

LowerCase == <<"a", "b", "c", "d", "e", "f", "g", "h", "i", "j", "k", "l", "m",
               "n", "o", "p", "q", "r", "s", "t", "u", "v", "w", "x", "y", "z">>

Range(f) == {f[i] : i \in DOMAIN f}

DigitChars == Range(Digits)

UpperChars == Range(UpperCase)

AlnumChars == Range(Digits) \cup Range(UpperCase) \cup Range(LowerCase)

SpaceChars == {" ", "\t", "\n", "\r"}

IsDigit(c) == c \in DigitChars

IsAlnum(c) == c \in AlnumChars

IsSpace(c) == c \in SpaceChars

\* the lower-case letter of each upper-case letter
LowerOf == [c \in UpperChars |-> LowerCase[CHOOSE i \in DOMAIN UpperCase : UpperCase[i] = c]]

\* str.lower() on one character
LowerChar(c) == IF c \in UpperChars THEN LowerOf[c] ELSE c

\* str.lower()
Lower(s) == [i \in DOMAIN s |-> LowerChar(s[i])]

\* s[:n]
Prefix(s, n) == SubSeq(s, 1, IF Len(s) < n THEN Len(s) ELSE n)

\* needle in s
Contains(s, needle) ==
    \E i \in 1..(Len(s) - Len(needle) + 1) :
        SubSeq(s, i, i + Len(needle) - 1) = needle

\* str(n) and f"{n}" for a natural number
RECURSIVE Str(_)
Str(n) == IF n < 10 THEN <<Digits[n + 1]>> ELSE Str(n \div 10) \o <<Digits[(n % 10) + 1]>>

\* f"{n:0{w}d}": zero padded to at least w characters
RECURSIVE Pad(_, _)
Pad(s, w) == IF Len(s) >= w THEN s ELSE Pad(<<"0">> \o s, w)

Fmt(n, w) == Pad(Str(n), w)

\* int(s) for a string of decimal digits
RECURSIVE Int10(_)
Int10(s) ==
    IF Len(s) = 0 THEN 0
    ELSE 10 * Int10(SubSeq(s, 1, Len(s) - 1))
         + (CHOOSE d \in 0..9 : Digits[d + 1] = s[Len(s)])

\* re.sub(r'[^A-Za-z0-9\s]', '', s)
StripSpecial(s) == SelectSeq(s, LAMBDA c : IsAlnum(c) \/ IsSpace(c))

\* re.sub(r'\s+', '.', s): every maximal run of white space becomes one dot
RECURSIVE SpacesToDots(_)
SpacesToDots(s) ==
    IF Len(s) = 0 THEN <<>>
    ELSE IF IsSpace(s[1])
         THEN IF Len(s) > 1 /\ IsSpace(s[2])
              THEN SpacesToDots(Tail(s))
              ELSE <<".">> \o SpacesToDots(Tail(s))
         ELSE <<s[1]>> \o SpacesToDots(Tail(s))

\* s.strip('.')
RECURSIVE StripDots(_)
StripDots(s) ==
    IF Len(s) = 0 THEN s
    ELSE IF s[1] = "." THEN StripDots(Tail(s))
    ELSE IF s[Len(s)] = "." THEN StripDots(SubSeq(s, 1, Len(s) - 1))
    ELSE s

\* Path.suffix: from the last dot of the name, unless that dot is the first
\* or the last character
PathSuffix(name) ==
    LET dots == {i \in DOMAIN name : name[i] = "."}
    IN  IF dots = {} THEN <<>>
        ELSE LET i == CHOOSE d \in dots : \A e \in dots : e <= d
             IN  IF 1 < i /\ i < Len(name) THEN SubSeq(name, i, Len(name)) ELSE <<>>

\* s.strip(): leading and trailing white space removed
RECURSIVE Strip(_)
Strip(s) ==
    IF Len(s) = 0 THEN s
    ELSE IF IsSpace(s[1]) THEN Strip(Tail(s))
    ELSE IF IsSpace(s[Len(s)]) THEN Strip(SubSeq(s, 1, Len(s) - 1))
    ELSE s

\* s[i], or a character no pattern matches when i is past the end
At(s, i) == IF i \in DOMAIN s THEN s[i] ELSE "\n"

(***************************************************************************)
(* res_regex = re.compile(r"(\d{3,4}p|[24]k)", re.IGNORECASE)              *)
(***************************************************************************)
\* the match of res_regex that starts at position i, <<>> when there is none:
\* four digits and p, else three digits and p, else 2 or 4 and k
ResMatchAt(s, i) ==
    IF /\ \A j \in i..(i + 3) : IsDigit(At(s, j))
       /\ LowerChar(At(s, i + 4)) = "p"
    THEN SubSeq(s, i, i + 4)
    ELSE IF /\ \A j \in i..(i + 2) : IsDigit(At(s, j))
            /\ LowerChar(At(s, i + 3)) = "p"
    THEN SubSeq(s, i, i + 3)
    ELSE IF At(s, i) \in {"2", "4"} /\ LowerChar(At(s, i + 1)) = "k"
    THEN SubSeq(s, i, i + 1)
    ELSE <<>>

\* res_regex.search(filename): group(1) of the leftmost match, <<>> without one
ResSearch(s) ==
    LET hits == {i \in DOMAIN s : ResMatchAt(s, i) # <<>>}
    IN  IF hits = {} THEN <<>>
        ELSE ResMatchAt(s, CHOOSE i \in hits : \A j \in hits : i <= j)

\* resolution = res_match.group(1).lower() if res_match else ""
Resolution(filename) == Lower(ResSearch(filename))

(***************************************************************************)
(* The title and show-name clean-up of rename_show_files.                  *)
(***************************************************************************)
TitleMax == 50

\* safe_title
SafeTitle(title) == Prefix(StripDots(SpacesToDots(StripSpecial(title))), TitleMax)

\* clean_show_name
CleanShowName(show_name) == SpacesToDots(StripSpecial(show_name))

(***************************************************************************)
(* Optional values: <<>> is Python's None, <<v>> is the value v.  A         *)
(* (season, episode) tuple is <<season, episode>>.                         *)
(***************************************************************************)
Some(v) == <<v>>

(***************************************************************************)
(* ask_ollama_for_episode_info: the answer of the inference service is a   *)
(* record [kind, stdout], kind being "ok" (return code 0), "nonzero",      *)
(* "timeout" or "error".                                                   *)
(***************************************************************************)
MaxSeasonAccepted == 20

MaxEpisodeAccepted == 50

\* re.search(r"S(\d{1,2})E(\d{1,2})", response, re.IGNORECASE) tried at
\* position i with n season digits: <<season, episode>>, or <<>>
EpisodeMatchWith(s, i, n) ==
    IF /\ LowerChar(At(s, i)) = "s"
       /\ \A j \in (i + 1)..(i + n) : IsDigit(At(s, j))
       /\ LowerChar(At(s, i + n + 1)) = "e"
       /\ IsDigit(At(s, i + n + 2))
    THEN LET m == IF IsDigit(At(s, i + n + 3)) THEN 2 ELSE 1
         IN  <<Int10(SubSeq(s, i + 1, i + n)),
               Int10(SubSeq(s, i + n + 2, i + n + 1 + m))>>
    ELSE <<>>

\* the season group is greedy: two digits are tried before one
EpisodeMatchAt(s, i) ==
    IF EpisodeMatchWith(s, i, 2) # <<>> THEN EpisodeMatchWith(s, i, 2)
    ELSE EpisodeMatchWith(s, i, 1)

EpisodeSearch(s) ==
    LET hits == {i \in DOMAIN s : EpisodeMatchAt(s, i) # <<>>}
    IN  IF hits = {} THEN <<>>
        ELSE EpisodeMatchAt(s, CHOOSE i \in hits : \A j \in hits : i <= j)

extract_episode_info(result) ==
    IF result.kind # "ok" THEN <<>>
    ELSE LET response == Strip(result.stdout)
             match == EpisodeSearch(response)
         IN  IF response = <<"N", "O", "N", "E">> THEN <<>>
             ELSE IF match = <<>> THEN <<>>
             ELSE IF /\ 1 <= match[1] /\ match[1] <= MaxSeasonAccepted
                     /\ 1 <= match[2] /\ match[2] <= MaxEpisodeAccepted
             THEN match
             ELSE <<>>

(***************************************************************************)
(* ask_ollama_for_anime_mapping                                            *)
(***************************************************************************)
MaxContinuousEpisode == 200

IsWord(c) == IsAlnum(c) \/ c = "_"

\* re.findall(r'\b\d+\b', response): the maximal runs of digits that have
\* no word character on either side, as the set of their <<first, last>>
NumberRuns(s) ==
    {r \in (DOMAIN s) \X (DOMAIN s) :
        /\ r[1] <= r[2]
        /\ \A j \in r[1]..r[2] : IsDigit(s[j])
        /\ ~IsWord(At(s, r[1] - 1))
        /\ ~IsWord(At(s, r[2] + 1))}

\* numbers[-1], <<>> when numbers is empty
LastNumber(s) ==
    LET runs == NumberRuns(s)
    IN  IF runs = {} THEN <<>>
        ELSE LET r == CHOOSE x \in runs : \A y \in runs : y[1] <= x[1]
             IN  SubSeq(s, r[1], r[2])

\* ask_ollama_for_anime_mapping without the upper limit of line 178
MappingWithoutLimit(result) ==
    IF result.kind # "ok" THEN <<>>
    ELSE LET response == Strip(result.stdout)
             number == LastNumber(response)
         IN  IF response = <<"U", "N", "K", "N", "O", "W", "N">> THEN <<>>
             ELSE IF number = <<>> THEN <<>>
             ELSE IF 1 <= Int10(number) THEN Some(Int10(number))
             ELSE <<>>

ask_ollama_for_anime_mapping(result) ==
    IF result.kind # "ok" THEN <<>>
    ELSE LET response == Strip(result.stdout)
             number == LastNumber(response)
         IN  IF response = <<"U", "N", "K", "N", "O", "W", "N">> THEN <<>>
             ELSE IF number = <<>> THEN <<>>
             ELSE IF 1 <= Int10(number) /\ Int10(number) <= MaxContinuousEpisode
             THEN Some(Int10(number))
             ELSE <<>>

(***************************************************************************)
(* get_show_info.  The catalog's answer for one show name is a record      *)
(*   [search  : "error" (tv.search raises), "empty" or "found",            *)
(*    id, name: results[0].id and results[0].name,                         *)
(*    details : [kind    : "error" (tv.details raises) or "ok",            *)
(*               genres  : sequence of optional genre names,               *)
(*               origin_country : sequence of country codes,               *)
(*               seasons : sequence of [season_number, episode_count],     *)
(*                         both optional integers (JSON null is <<>>)]].   *)
(* A dictionary is a function; the empty dictionary is <<>>.  The episode  *)
(* counts stored in show_info['seasons'] are kept as optional integers,    *)
(* because the code stores whatever the catalog gave, null included.       *)
(***************************************************************************)
Animation == <<"a", "n", "i", "m", "a", "t", "i", "o", "n">>

Japan == <<"j", "a", "p", "a", "n">>

\* d[k] = v
Put(d, k, v) == [x \in (DOMAIN d) \cup {k} |-> IF x = k THEN v ELSE d[x]]

\* show_info as built before the details are read
NewShowInfo(show) ==
    [id |-> show.id, name |-> show.name, seasons |-> <<>>,
     total_episodes |-> 0, is_anime |-> FALSE]

\* the loop over details.get('seasons', []): [info, raised].  A null
\* season_number raises at the comparison, a null episode_count raises at
\* the addition, after the count was stored
RECURSIVE ReadSeasons(_, _)
ReadSeasons(list, show_info) ==
    IF list = <<>> THEN [info |-> show_info, raised |-> FALSE]
    ELSE LET season_data == Head(list)
             season_num == season_data.season_number
             episode_count == season_data.episode_count
         IN  IF season_num = <<>> THEN [info |-> show_info, raised |-> TRUE]
             ELSE IF season_num[1] > 0
             THEN LET stored == [show_info EXCEPT
                                    !.seasons = Put(@, season_num[1], episode_count)]
                  IN  IF episode_count = <<>>
                      THEN [info |-> stored, raised |-> TRUE]
                      ELSE ReadSeasons(Tail(list),
                               [stored EXCEPT !.total_episodes = @ + episode_count[1]])
             ELSE ReadSeasons(Tail(list), show_info)

\* the inner try block: [info, raised], info being show_info as the except
\* clause finds it
ReadDetails(show, details, show_info) ==
    IF details.kind = "error" THEN [info |-> show_info, raised |-> TRUE]
    ELSE IF \E i \in DOMAIN details.genres : details.genres[i] = <<>>
    THEN [info |-> show_info, raised |-> TRUE]
    ELSE LET genres == [i \in DOMAIN details.genres |-> Lower(details.genres[i][1])]
             is_anime == /\ Animation \in Range(genres)
                         /\ \/ "JP" \in Range(details.origin_country)
                            \/ Contains(Lower(show.name), Japan)
         IN  ReadSeasons(details.seasons, [show_info EXCEPT !.is_anime = is_anime])

\* whether the inner try block raised for this answer
DetailsRaised(answer) ==
    ReadDetails(answer, answer.details, NewShowInfo(answer)).raised

\* get_show_info(show_name): [cache, info], info optional
get_show_info(cache, show_name, answer) ==
    IF show_name \in DOMAIN cache
    THEN [cache |-> cache, info |-> Some(cache[show_name])]
    ELSE IF answer.search # "found"
    THEN [cache |-> cache, info |-> <<>>]
    ELSE LET show_info == ReadDetails(answer, answer.details, NewShowInfo(answer)).info
         IN  [cache |-> Put(cache, show_name, show_info), info |-> Some(show_info)]

(***************************************************************************)
(* get_episode_title.  The answer of episode_api.details is a record       *)
(* [kind, name]: kind "error" (the call raises), "noname" (the object has  *)
(* no name attribute) or "ok".                                             *)
(***************************************************************************)
get_episode_title(cache, show_name, answer) ==
    IF show_name \notin DOMAIN cache THEN <<>>
    ELSE IF answer.kind = "ok" THEN Some(answer.name)
    ELSE <<>>

\* not title: None and the empty string are both false
NoTitle(title) == title = <<>> \/ title[1] = <<>>

(***************************************************************************)
(* One iteration of the loop of rename_show_files, in the order of the     *)
(* code.                                                                   *)
(***************************************************************************)
EpisodesPerSeason == 12

\* the fallback calculation counting the detected season in full
FallbackWholeSeasons(detected_season, detected_episode) ==
    IF detected_season > 1
    THEN detected_episode + detected_season * EpisodesPerSeason
    ELSE detected_episode

\* the fallback calculation of lines 356-358
FallbackEpisode(detected_season, detected_episode) ==
    IF detected_season > 1
    THEN detected_episode + (detected_season - 1) * EpisodesPerSeason
    ELSE detected_episode

\* lines 345-361 applied to every show, anime or not
LocateAsAnime(is_anime, continuous_ep, detected_season, detected_episode) ==
    IF continuous_ep # <<>> /\ continuous_ep[1] # 0
    THEN <<1, continuous_ep[1]>>
    ELSE <<1, detected_episode + (IF detected_season > 1
                                  THEN (detected_season - 1) * EpisodesPerSeason
                                  ELSE 0)>>

\* lines 345-365: <<final_season, final_episode>> before the title lookup.
\* continuous_ep is the optional result of ask_ollama_for_anime_mapping
Locate(is_anime, continuous_ep, detected_season, detected_episode) ==
    IF is_anime
    THEN IF continuous_ep # <<>> /\ continuous_ep[1] # 0
         THEN <<1, continuous_ep[1]>>
         ELSE <<1, FallbackEpisode(detected_season, detected_episode)>>
    ELSE <<detected_season, detected_episode>>

\* lines 368-387 without the assignments of lines 376-377 and 381-382: the
\* retry's title is taken, the located pair is kept
TitleFallbackKeeping(is_anime, located, detected, title1, title2) ==
    IF NoTitle(title1) /\ is_anime /\ located[1] = 1
    THEN [final |-> located,
          title |-> IF NoTitle(title2) THEN Str(located[2]) ELSE title2[1]]
    ELSE [final |-> located,
          title |-> IF NoTitle(title1) THEN Str(located[2]) ELSE title1[1]]

\* lines 368-387: [final, title] from the located pair, the detected pair,
\* the title found for the located pair and the title the retry would find
TitleFallback(is_anime, located, detected, title1, title2) ==
    IF NoTitle(title1) /\ is_anime /\ located[1] = 1
    THEN [final |-> detected,
          title |-> IF NoTitle(title2) THEN Str(detected[2]) ELSE title2[1]]
    ELSE [final |-> located,
          title |-> IF NoTitle(title1) THEN Str(located[2]) ELSE title1[1]]

\* f"S{season:02d}EP{episode:03d}"
EpisodeCode(season, episode) == <<"S">> \o Fmt(season, 2) \o <<"E", "P">> \o Fmt(episode, 3)

\* f"S{season:02d}E{episode:02d}", the form of the log entries
LogCode(season, episode) == <<"S">> \o Fmt(season, 2) \o <<"E">> \o Fmt(episode, 2)

\* the condition of lines 402 and 421
HasTitle(safe_title, final_episode) ==
    safe_title # <<>> /\ safe_title # Str(final_episode)

\* lines 402-413: the four forms of new_name.  p is the record of
\* clean_show_name, final_season, final_episode, safe_title, resolution, suffix
BaseName(p) ==
    p.clean_show_name \o <<".">> \o EpisodeCode(p.final_season, p.final_episode)
      \o (IF HasTitle(p.safe_title, p.final_episode) THEN <<".">> \o p.safe_title ELSE <<>>)
      \o (IF p.resolution # <<>> THEN <<".">> \o p.resolution ELSE <<>>)
      \o p.suffix

\* lines 421-430: the four forms of new_name with a counter
CounterName(p, counter) ==
    p.clean_show_name \o <<".">> \o EpisodeCode(p.final_season, p.final_episode)
      \o (IF HasTitle(p.safe_title, p.final_episode) THEN <<".">> \o p.safe_title ELSE <<>>)
      \o <<"_">> \o Str(counter)
      \o (IF p.resolution # <<>> THEN <<".">> \o p.resolution ELSE <<>>)
      \o p.suffix

\* the while loop of lines 420-432, entered with new_name and counter:
\* [new_name, counter] at its exit
RECURSIVE CollisionLoop(_, _, _, _, _)
CollisionLoop(dir, file_path, p, new_name, counter) ==
    IF new_name \in dir /\ new_name # file_path
    THEN CollisionLoop(dir, file_path, p, CounterName(p, counter), counter + 1)
    ELSE [new_name |-> new_name, counter |-> counter]

\* lines 402-413 alone: the name without the collision loop
ResolveWithoutLoop(dir, file_path, p) == [new_name |-> BaseName(p), counter |-> 1]

\* lines 419-432
ResolveCollision(dir, file_path, p) == CollisionLoop(dir, file_path, p, BaseName(p), 1)

\* lines 390-399, the parts of the new name that do not depend on the
\* episode: clean_show_name, resolution and suffix
FileNames(show_name, filename) ==
    [clean_show_name |-> CleanShowName(show_name),
     resolution      |-> Resolution(filename),
     suffix          |-> PathSuffix(filename)]

\* the values the f-strings of lines 402-430 read
NameParts(names, final, title) ==
    [clean_show_name |-> names.clean_show_name,
     final_season    |-> final[1],
     final_episode   |-> final[2],
     safe_title      |-> SafeTitle(title),
     resolution      |-> names.resolution,
     suffix          |-> names.suffix]

\* lines 449-452 without the test of dry_run at line 448
RenamedInDryRun(dry_run, dir, file_path, rename_fails) ==
    file_path \in dir /\ ~rename_fails

\* lines 448-452: whether file_path.rename(new_path) is called and succeeds.
\* Path.rename raises when the file is gone or the system refuses
Renamed(dry_run, dir, file_path, rename_fails) ==
    ~dry_run /\ file_path \in dir /\ ~rename_fails

\* a rename that loses the file when it fails
DirAfterLosing(dir, file_path, new_name, renamed) ==
    IF renamed THEN (dir \ {file_path}) \cup {new_name} ELSE dir \ {file_path}

\* the directory after lines 448-452
DirAfter(dir, file_path, new_name, renamed) ==
    IF renamed THEN (dir \ {file_path}) \cup {new_name} ELSE dir

\* lines 333-452 for one file: the record of the iteration's local values
\* and of its outcome.  names is FileNames of the file; detected,
\* continuous_ep, title1 and title2 are the values returned by the
\* collaborators (title2 only read when the retry of line 373 is made);
\* rename_fails tells whether Path.rename raises
Iteration(dir, names, is_anime, dry_run, file_path, detected, continuous_ep, title1, title2, rename_fails) ==
    IF detected = <<>>
    THEN [outcome |-> "skipped", file |-> file_path, dir_before |-> dir,
          dir_after |-> dir, entry |-> <<>>]
    ELSE LET located == Locate(is_anime, continuous_ep, detected[1], detected[2])
             tf == TitleFallback(is_anime, located, detected, title1, title2)
             p == NameParts(names, tf.final, tf.title)
             chosen == ResolveCollision(dir, file_path, p)
             entry == [original |-> file_path,
                       detected |-> LogCode(detected[1], detected[2]),
                       final    |-> LogCode(tf.final[1], tf.final[2]),
                       new_name |-> chosen.new_name,
                       title    |-> tf.title]
             renamed == Renamed(dry_run, dir, file_path, rename_fails)
             locals == [file |-> file_path, dir_before |-> dir,
                        detected |-> detected, continuous_ep |-> continuous_ep,
                        located |-> located,
                        retried |-> NoTitle(title1) /\ is_anime /\ located[1] = 1,
                        title1_found |-> ~NoTitle(title1),
                        title2_found |-> ~NoTitle(title2),
                        final |-> tf.final, title |-> tf.title,
                        new_name |-> chosen.new_name, counter |-> chosen.counter]
         IN  IF chosen.new_name = file_path
             THEN [outcome |-> "already", dir_after |-> dir, entry |-> <<>>] @@ locals
             ELSE [outcome |-> IF dry_run THEN "preview"
                               ELSE IF renamed THEN "renamed" ELSE "rename_failed",
                   dir_after |-> DirAfter(dir, file_path, chosen.new_name, renamed),
                   entry |-> <<entry>>] @@ locals

\* a log writer that starts a new document each time
WriteOverwriting(log_file, show_name, log_entries) ==
    [kind |-> "list",
     items |-> <<[show_name |-> show_name, total_files |-> Len(log_entries),
                  entries |-> log_entries]>>]

(***************************************************************************)
(* write_rename_log.  The log file is [kind, items]: kind "absent", "list" *)
(* (a JSON list, items its records) or "dict" (a JSON document that is not *)
(* a list, items the one-element sequence holding that document).  The     *)
(* timestamp of a record is left out.                                      *)
(***************************************************************************)
write_rename_log(log_file, show_name, log_entries) ==
    LET log_data == [show_name |-> show_name,
                     total_files |-> Len(log_entries),
                     entries |-> log_entries]
        existing_data == IF log_file.kind = "list" THEN log_file.items
                         ELSE <<log_file.items[1]>>
    IN  IF log_file.kind # "absent"
        THEN [kind |-> "list", items |-> Append(existing_data, log_data)]
        ELSE [kind |-> "list", items |-> <<log_data>>]

\* lines 454-456, log_file_path being given
FinishLog(log_file, show_name, log_entries) ==
    IF log_entries # <<>>
    THEN write_rename_log(log_file, show_name, log_entries)
    ELSE log_file

(***************************************************************************)
(* The inputs the model draws from.                                        *)
(***************************************************************************)
\* the longest file list given to rename_show_files
MaxFiles == 2

\* the most calls of Path.rename that fail in one batch
MaxFailures == 1

\* the show name, as the folder gives it
ShowName == <<"A", " ", "b", "!">>

TitleA == <<"A", "b", "!">>

Mkv == <<".", "m", "k", "v">>

RawA == <<"a">> \o Mkv

RawB == <<"b", ".", "4", "K">> \o Mkv

RawC == <<"c", ".", "4", "k">> \o Mkv

\* file names already in the form the script produces
CanonParts ==
    [clean_show_name |-> CleanShowName(ShowName), final_season |-> 1,
     final_episode |-> 3, safe_title |-> SafeTitle(TitleA),
     resolution |-> <<>>, suffix |-> Mkv]

Canon0 == BaseName(CanonParts)

Canon1 == CounterName(CanonParts, 1)

OldRecord == [show_name |-> <<"O">>, total_files |-> 0, entries |-> <<>>]

\* the directory's content and the log file before the run
Scenarios ==
    {[dir |-> {RawA, RawB, RawC}, log |-> [kind |-> "absent", items |-> <<>>]],
     [dir |-> {RawA, Canon0}, log |-> [kind |-> "list", items |-> <<OldRecord>>]],
     [dir |-> {RawA, Canon0, Canon1}, log |-> [kind |-> "dict", items |-> <<OldRecord>>]],
     [dir |-> {RawA, Canon1}, log |-> [kind |-> "absent", items |-> <<>>]]}

\* the file lists of at most MaxFiles distinct files of a directory
FileLists(d) ==
    {l \in UNION {[1..n -> d] : n \in 1..MaxFiles} :
        \A i, j \in DOMAIN l : i # j => l[i] # l[j]}

Seasons(list) == [i \in DOMAIN list |->
                    [season_number |-> list[i][1], episode_count |-> list[i][2]]]

\* an answer of the catalog that finds the show
Found(name, kind, genres, countries, seasons) ==
    [search |-> "found", id |-> 7, name |-> name,
     details |-> [kind |-> kind, genres |-> genres,
                  origin_country |-> countries, seasons |-> Seasons(seasons)]]

Drama == Some(<<"D", "r", "a", "m", "a">>)

Anim == Some(<<"A", "n", "i", "m", "a", "t", "i", "o", "n">>)

PlainName == <<"A", " ", "b">>

JapanName == <<"J", "a", "p", "a", "n", " ", "b">>

\* the answers of the catalog a batch draws from: the search fails or finds
\* nothing, a show that is not anime, an anime
BatchAnswers ==
    {[search |-> "error"], [search |-> "empty"],
     Found(PlainName, "ok", <<Drama>>, <<"US", "JP">>, <<<<Some(0), Some(2)>>, <<Some(1), Some(10)>>>>),
     Found(JapanName, "ok", <<Drama, Anim>>, <<"US">>, <<<<Some(1), Some(24)>>>>)}

\* the answers of the catalog the lookups alone draw from: also the ones
\* whose details cannot be retrieved or read
CatalogAnswers ==
    BatchAnswers \cup
    {Found(PlainName, "error", <<>>, <<>>, <<>>),
     Found(PlainName, "ok", <<Anim, <<>>>>, <<"JP">>, <<>>),
     Found(PlainName, "ok", <<Drama>>, <<"JP">>, <<<<Some(0), Some(2)>>, <<<<>>, Some(10)>>>>),
     Found(PlainName, "ok", <<Anim>>, <<"US">>, <<<<Some(1), Some(10)>>>>),
     Found(PlainName, "ok", <<Anim>>, <<"US", "JP">>, <<<<Some(1), Some(12)>>, <<Some(2), <<>>>>>>),
     Found(JapanName, "ok", <<Anim>>, <<"JP">>, <<<<Some(1), Some(12)>>, <<<<>>, Some(3)>>>>)}

\* the show names the lookups alone ask for
ShowNames == {ShowName, <<"Y">>, <<"Z", "z">>}

\* a run of the inference service that ends with return code 0
Ok(stdout) == [kind |-> "ok", stdout |-> stdout]

\* the answers of the inference service to ask_ollama_for_episode_info
ExtractAnswers ==
    {[kind |-> "nonzero", stdout |-> <<>>], [kind |-> "timeout", stdout |-> <<>>],
     [kind |-> "error", stdout |-> <<>>],
     Ok(<<"N", "O", "N", "E", "\n">>),
     Ok(<<"S", "0", "1", "E", "0", "3", "\n">>),
     Ok(<<"s", "2", "e", "3">>),
     Ok(<<"S", "0", "2", "E", "P", "0", "3">>),
     Ok(<<"S", "0", "0", "E", "0", "3">>),
     Ok(<<"S", "2", "1", "E", "0", "3">>),
     Ok(<<"S", "0", "1", "E", "5", "1">>),
     Ok(<<"S", "0", "1", "E", "0", "0">>)}

\* the answers of the inference service to ask_ollama_for_anime_mapping
MappingAnswers ==
    {[kind |-> "nonzero", stdout |-> <<>>], [kind |-> "timeout", stdout |-> <<>>],
     [kind |-> "error", stdout |-> <<>>],
     Ok(<<"U", "N", "K", "N", "O", "W", "N", "\n">>),
     Ok(<<"2", "0", "0", "\n">>),
     Ok(<<"1", "2", " ", "+", " ", "3", " ", "=", " ", "2", "0", "0", ".">>),
     Ok(<<"2", "0", "1">>),
     Ok(<<"0">>),
     Ok(<<"e", "p", "1", "5">>),
     Ok(<<"n", "o", " ", "i", "d", "e", "a">>)}

\* the answers of episode_api.details
TitleAnswers ==
    {[kind |-> "error", name |-> <<>>], [kind |-> "noname", name |-> <<>>],
     [kind |-> "ok", name |-> <<>>], [kind |-> "ok", name |-> TitleA]}

\* the values the collaborators return for these answers
DetectedValues == {extract_episode_info(a) : a \in ExtractAnswers}

ContinuousValues == {ask_ollama_for_anime_mapping(a) : a \in MappingAnswers}

(***************************************************************************)
(* The state: the process-wide cache, the directory, the log file, and the *)
(* position and local values of rename_show_files.                         *)
(***************************************************************************)
VARIABLES
    show_cache,   \* show_cache: show name -> show_info
    dir,          \* the names present in the show's folder
    log_file,     \* the run log document
    dry_run,      \* args.dry_run
    pc,           \* "idle", "loop" (inside the for loop) or "done"
    show_info,    \* the optional result of get_show_info for the batch
    files,        \* the files argument
    idx,          \* how many files of the list the loop has taken
    log_entries,  \* log_entries
    lookup,       \* what the batch's get_show_info call met in the catalog
    last,         \* the local values of the last iteration of the loop
    processed,    \* the outcome of each file taken so far
    dir0,         \* the directory when the batch began
    log0,         \* the log file when the batch began
    rerun,        \* the batch is a second run over the files of the first
    encodes       \* in a second run: what the first run made of each file

vars == <<show_cache, dir, log_file, dry_run, pc, show_info, files, idx,
          log_entries, lookup, last, processed, dir0, log0, rerun, encodes>>

NoLast == [outcome |-> "none"]

Init ==
    /\ show_cache = <<>>
    /\ \E s \in Scenarios : dir = s.dir /\ log_file = s.log
    /\ dry_run \in BOOLEAN
    /\ pc = "idle"
    /\ show_info = <<>>
    /\ files = <<>>
    /\ idx = 0
    /\ log_entries = <<>>
    /\ lookup = [search |-> "none", raised |-> FALSE]
    /\ last = NoLast
    /\ processed = <<>>
    /\ dir0 = dir
    /\ log0 = log_file
    /\ rerun = FALSE
    /\ encodes = <<>>

\* what get_show_info met: a cache hit, or the search's outcome and whether
\* the reading of the details raised
Met(cache, show_name, answer) ==
    IF show_name \in DOMAIN cache THEN [search |-> "cached", raised |-> FALSE]
    ELSE IF answer.search # "found" THEN [search |-> answer.search, raised |-> FALSE]
    ELSE [search |-> "found", raised |-> DetailsRaised(answer)]

\* lines 319-331: the batch begins; it returns at once when the show is not
\* found
Begin(answer, list, first_run) ==
    LET got == get_show_info(show_cache, ShowName, answer)
    IN  /\ show_cache' = got.cache
        /\ show_info' = got.info
        /\ lookup' = Met(show_cache, ShowName, answer)
        /\ files' = list
        /\ idx' = 0
        /\ log_entries' = <<>>
        /\ last' = NoLast
        /\ processed' = <<>>
        /\ dir0' = dir
        /\ log0' = log_file
        /\ rerun' = (first_run # <<>>)
        /\ encodes' = first_run
        /\ pc' = IF got.info = <<>> THEN "done" ELSE "loop"
        /\ UNCHANGED <<dir, log_file, dry_run>>

\* main calls rename_show_files for the show
StartBatch ==
    /\ pc = "idle"
    /\ \E answer \in BatchAnswers, list \in FileLists(dir) : Begin(answer, list, <<>>)

\* the collaborators' values for one file.  In a second run they are the
\* ones that give the file the numbering and title its name was made from
Consistent(r) ==
    rerun => /\ r.outcome # "skipped"
             /\ r.final = encodes[idx + 1].final
             /\ r.title = encodes[idx + 1].title

\* the number of failed renames of the batch so far
Failures == Cardinality({i \in DOMAIN processed : processed[i].outcome = "rename_failed"})

\* what the loop made of a file: its outcome, the path it is at, and the
\* numbering and title of the name made for it
Made(r) ==
    IF r.outcome = "skipped" THEN [outcome |-> r.outcome, path |-> r.file]
    ELSE [outcome |-> r.outcome,
          path |-> IF r.outcome = "renamed" THEN r.new_name ELSE r.file,
          final |-> r.final, title |-> r.title]

\* the state after one iteration with result r
Step(r) ==
    /\ Consistent(r)
    /\ dir' = r.dir_after
    /\ log_entries' = log_entries \o r.entry
    /\ last' = r
    /\ processed' = Append(processed, Made(r))
    /\ idx' = idx + 1
    /\ UNCHANGED <<show_cache, log_file, dry_run, pc, show_info, files, lookup,
                   dir0, log0, rerun, encodes>>

\* one iteration of the for loop, lines 333-452
ProcessFile ==
    /\ pc = "loop"
    /\ idx < Len(files)
    /\ LET file_path == files[idx + 1]
           is_anime == show_info[1].is_anime
           names == FileNames(ShowName, file_path)
           titles == {get_episode_title(show_cache, ShowName, a) : a \in TitleAnswers}
           may_fail == IF ~dry_run /\ Failures < MaxFailures THEN BOOLEAN ELSE {FALSE}
       IN  \E detected \in DetectedValues :
             IF detected = <<>>
             THEN Step(Iteration(dir, names, is_anime, dry_run, file_path,
                                 detected, <<>>, <<>>, <<>>, FALSE))
             ELSE \E continuous_ep \in (IF is_anime THEN ContinuousValues ELSE {<<>>}),
                     title1 \in titles :
                    \E title2 \in (IF NoTitle(title1) /\ is_anime THEN titles ELSE {<<>>}),
                       rename_fails \in may_fail :
                        Step(Iteration(dir, names, is_anime, dry_run, file_path,
                                       detected, continuous_ep, title1, title2,
                                       rename_fails))

\* lines 454-456 and write_rename_log: the loop is over
FinishBatch ==
    /\ pc = "loop"
    /\ idx = Len(files)
    /\ log_file' = FinishLog(log_file, ShowName, log_entries)
    /\ pc' = "done"
    /\ last' = NoLast
    /\ UNCHANGED <<show_cache, dir, dry_run, show_info, files, idx, log_entries,
                   lookup, processed, dir0, log0, rerun, encodes>>

\* the batch is run a second time over the files of the first run, at the
\* paths the first run left them, in the same order; the show is in the
\* cache, so that the catalog is not asked
StartRerun ==
    /\ pc = "done"
    /\ ~rerun
    /\ ~dry_run
    /\ show_info # <<>>
    /\ \A i \in DOMAIN processed : processed[i].outcome \in {"already", "renamed"}
    /\ Begin([search |-> "error"], [i \in DOMAIN processed |-> processed[i].path], processed)

Next == StartBatch \/ ProcessFile \/ FinishBatch \/ StartRerun

Spec == Init /\ [][Next]_vars

(***************************************************************************)
(* The catalog alone: get_show_info called for some show names, one call   *)
(* after the other, the catalog giving any of CatalogAnswers.              *)
(***************************************************************************)
CatalogInit ==
    /\ show_cache = <<>>
    /\ dir = {}
    /\ log_file = [kind |-> "absent", items |-> <<>>]
    /\ dry_run = FALSE
    /\ pc = "catalog"
    /\ show_info = <<>>
    /\ files = <<>>
    /\ idx = 0
    /\ log_entries = <<>>
    /\ lookup = [search |-> "none", raised |-> FALSE]
    /\ last = NoLast
    /\ processed = <<>>
    /\ dir0 = {}
    /\ log0 = log_file
    /\ rerun = FALSE
    /\ encodes = <<>>

\* get_show_info(show_name); files holds the name asked for
Lookup ==
    /\ pc = "catalog"
    /\ \E show_name \in ShowNames, answer \in CatalogAnswers :
          LET got == get_show_info(show_cache, show_name, answer)
          IN  /\ show_cache' = got.cache
              /\ show_info' = got.info
              /\ lookup' = Met(show_cache, show_name, answer)
              /\ files' = <<show_name>>
    /\ UNCHANGED <<dir, log_file, dry_run, pc, idx, log_entries, last, processed,
                   dir0, log0, rerun, encodes>>

CatalogSpec == CatalogInit /\ [][Lookup]_vars

(***************************************************************************)
(* The continuous mapping alone: lines 345-361 of rename_show_files for an *)
(* anime, for a detected pair and an answer of the inference service.      *)
(***************************************************************************)
MappingDetected == {<<s, e>> : s \in {1, 2, 3, 20}, e \in {1, 3, 50}}

\* continuous_ep = ask_ollama_for_anime_mapping(...) and the branch on it
MapEpisode ==
    /\ pc = "catalog"
    /\ \E detected \in MappingDetected, answer \in MappingAnswers :
          LET continuous_ep == ask_ollama_for_anime_mapping(answer)
          IN  last' = [outcome |-> "mapped", detected |-> detected, answer |-> answer,
                       continuous_ep |-> continuous_ep,
                       located |-> Locate(TRUE, continuous_ep, detected[1], detected[2])]
    /\ UNCHANGED <<show_cache, dir, log_file, dry_run, pc, show_info, files, idx,
                   log_entries, lookup, processed, dir0, log0, rerun, encodes>>

MappingSpec == CatalogInit /\ [][MapEpisode]_vars

(***************************************************************************)
(* The properties of rename_show_files, stated on the local values of the  *)
(* last iteration of its loop.                                             *)
(***************************************************************************)
\* the last step was an iteration that got an episode guess
Acted == pc = "loop" /\ last.outcome \notin {"none", "skipped"}

IsAnime == show_info[1].is_anime

\* new_name begins with the show name and the episode code of the pair
UsesNumbering(new_name, pair) ==
    LET head == CleanShowName(ShowName) \o <<".">> \o EpisodeCode(pair[1], pair[2])
    IN  Prefix(new_name, Len(head)) = head

\* C1: for a show that is not anime, whatever was detected and whether the
\* title lookup found a title or not, the final season and episode are the
\* detected ones, in the new file name and in the log entry.
IdentityForNonAnime ==
    (Acted /\ ~IsAnime) =>
        /\ last.final = last.detected
        /\ UsesNumbering(last.new_name, last.detected)
        /\ last.entry # <<>> =>
              /\ last.entry[1].final = LogCode(last.detected[1], last.detected[2])
              /\ log_entries[Len(log_entries)] = last.entry[1]

\* a file of a show that is not anime, detected in season 2, whose title is
\* not found, is renamed
IdentityForNonAnimeSeen ==
    /\ Acted /\ ~IsAnime
    /\ last.outcome = "renamed"
    /\ last.detected = <<2, 3>>
    /\ ~last.title1_found

\* the pair of the fallback arithmetic for the last iteration
FallbackPair ==
    <<1, last.detected[2] + (last.detected[1] - 1) * 12>>

\* C2 as stated: for an anime with no usable mapping the numbering is season
\* 1, episode detected_episode + (detected_season - 1) * 12, and the file
\* name uses it unless the title lookup for it fails and the retry with the
\* detected pair succeeds.
FallbackUsedUnlessRetrySucceeds ==
    (Acted /\ IsAnime /\ last.continuous_ep = <<>>) =>
        /\ last.located = FallbackPair
        /\ ~(~last.title1_found /\ last.title2_found) =>
              /\ last.final = FallbackPair
              /\ UsesNumbering(last.new_name, FallbackPair)

\* C2: for an anime with no usable mapping the numbering is season 1,
\* episode detected_episode + (detected_season - 1) * 12; the file name uses
\* it when the title lookup for it succeeds, and uses the detected pair when
\* that lookup fails, whether the retry succeeds or not.
FallbackUsedWhenTitled ==
    (Acted /\ IsAnime /\ last.continuous_ep = <<>>) =>
        /\ last.located = FallbackPair
        /\ last.final = IF last.title1_found THEN FallbackPair ELSE last.detected
        /\ UsesNumbering(last.new_name, last.final)

\* S02E03 of an anime with no mapping, the title of S01E15 being found, is
\* renamed with S01EP015
FallbackUsedSeen ==
    /\ Acted /\ IsAnime
    /\ last.continuous_ep = <<>>
    /\ last.detected = <<2, 3>>
    /\ last.title1_found
    /\ last.final = <<1, 15>>
    /\ last.outcome = "renamed"

\* C3: in an iteration for an anime the file is located in season 1 by the
\* mapping or the fallback arithmetic, whatever happened to the files before
\* it; when the title lookup for that pair fails and the one for the
\* detected pair succeeds, the final pair is the detected one and the title
\* the one found for it; the iteration leaves the cache and the show's
\* entry as they were.
ReversionForOneFile ==
    [][(pc = "loop" /\ idx' = idx + 1) =>
          /\ show_cache' = show_cache
          /\ show_info' = show_info
          /\ (IsAnime /\ last'.outcome # "skipped") =>
                /\ last'.located =
                      <<1, IF last'.continuous_ep # <<>> THEN last'.continuous_ep[1]
                           ELSE last'.detected[2] + (last'.detected[1] - 1) * 12>>
                /\ (~last'.title1_found /\ last'.title2_found) =>
                      /\ last'.final = last'.detected
                      /\ last'.title = TitleA
                      /\ UsesNumbering(last'.new_name, last'.detected)]_vars

\* the first file of an anime reverted to S02E03 with the title found for
\* it, and the second file, detected in season 2, keeps its season 1 pair
ReversionSeen ==
    /\ Acted /\ IsAnime
    /\ idx = 2
    /\ processed[1].outcome = "renamed"
    /\ processed[1].final = <<2, 3>>
    /\ processed[1].title = TitleA
    /\ last.detected[1] = 2
    /\ last.title1_found
    /\ last.final = last.located
    /\ last.located[1] = 1


\* the name made of the parts p with the text tag between the title segment
\* (the episode code when there is no title segment) and the resolution
Tagged(p, tag) ==
    p.clean_show_name \o <<".", "S">> \o Fmt(p.final_season, 2)
      \o <<"E", "P">> \o Fmt(p.final_episode, 3)
      \o (IF p.safe_title \in {<<>>, Str(p.final_episode)} THEN <<>>
          ELSE <<".">> \o p.safe_title)
      \o tag
      \o (IF p.resolution = <<>> THEN <<>> ELSE <<".">> \o p.resolution)
      \o p.suffix

CounterTag(n) == IF n = 0 THEN <<>> ELSE <<"_">> \o Str(n)

\* C4: the name chosen for a file is not the name of another file of the
\* directory; it carries the counter _N exactly when the name without
\* counter and the names with _1 .. _(N-1) are names of other files, and
\* the counter stands after the title segment (after the episode code when
\* there is none) and before the resolution.
CollisionUniqueness ==
    Acted =>
        LET p == NameParts(FileNames(ShowName, last.file), last.final, last.title)
            others == last.dir_before \ {last.file}
            n == last.counter - 1
        IN  /\ n >= 0
            /\ last.new_name = Tagged(p, CounterTag(n))
            /\ last.new_name \notin others
            /\ \A k \in 0..(n - 1) : Tagged(p, CounterTag(k)) \in others

\* a file whose name without counter and with _1 are both taken by other
\* files is renamed with _2
CollisionUniquenessSeen ==
    /\ Acted
    /\ last.outcome = "renamed"
    /\ last.counter = 3
    /\ {Canon0, Canon1} \subseteq last.dir_before \ {last.file}

\* C5 as stated: a second live batch over the files the first one left, the
\* directory untouched in between and the collaborators giving each file
\* the numbering and title its name was made from, renames nothing and
\* finds every file already named correctly.
SecondRunRenamesNothing ==
    rerun =>
        /\ dir = dir0
        /\ \A i \in DOMAIN processed : processed[i].outcome = "already"

\* C6: in a dry run the directory stays as it was when the batch began, and
\* every file that would be renamed has a log entry with its new name.
DryRunRenamesNothing ==
    (dry_run /\ pc \in {"loop", "done"}) =>
        /\ dir = dir0
        /\ \A i \in DOMAIN processed :
              processed[i].outcome \in {"skipped", "already", "preview"}
        /\ Len(log_entries) =
              Cardinality({i \in DOMAIN processed : processed[i].outcome = "preview"})
        /\ (Acted /\ last.outcome = "preview") =>
              /\ last.new_name # last.file
              /\ log_entries[Len(log_entries)].original = last.file
              /\ log_entries[Len(log_entries)].new_name = last.new_name

\* a dry run over two files ends with two log entries
DryRunSeen ==
    /\ dry_run
    /\ pc = "done"
    /\ Len(files) = 2
    /\ Len(log_entries) = 2
    /\ log_entries[1].new_name \notin dir
    /\ log_entries[2].new_name \notin dir

\* C7: a file without an episode guess and a file whose rename fails stay
\* where they are; the loop goes on to the end of the list, and each file
\* ends as skipped, already named, renamed or rename failed (in a dry run,
\* previewed in place of renamed).
ErrorIsolation ==
    /\ (pc = "loop" /\ last.outcome \in {"skipped", "rename_failed"}) =>
          /\ dir = last.dir_before
          /\ last.file \in dir
    /\ pc = "loop" => Len(processed) = idx /\ idx <= Len(files)
    /\ (pc = "done" /\ show_info # <<>>) =>
          /\ Len(processed) = Len(files)
          /\ \A i \in DOMAIN processed :
                /\ processed[i].outcome \in
                      (IF dry_run THEN {"skipped", "already", "preview"}
                       ELSE {"skipped", "already", "renamed", "rename_failed"})
                /\ processed[i].outcome \in {"skipped", "rename_failed"} =>
                      files[i] \in dir

\* a batch whose first file fails to be renamed and stays in place renames
\* its second file and ends
ErrorIsolationSeen ==
    /\ pc = "done"
    /\ ~rerun
    /\ Len(processed) = 2
    /\ processed[1].outcome = "rename_failed"
    /\ processed[2].outcome = "renamed"
    /\ files[1] \in dir

\* the record write_rename_log builds for the batch
BatchRecord ==
    [show_name |-> ShowName, total_files |-> Len(log_entries), entries |-> log_entries]

\* C8 as stated: after the batch of a show found in the catalog the log
\* document is the earlier one with exactly one record appended.
OneRecordPerShow ==
    (pc = "done" /\ show_info # <<>>) =>
        /\ log_file.kind = "list"
        /\ log_file.items = log0.items \o <<BatchRecord>>

\* C8: after the batch of a show found in the catalog, when the batch made
\* at least one log entry the log document is the list of the earlier
\* records (an earlier document that is not a list counting as one record)
\* with exactly one record appended; when it made none, the document is
\* as it was, and is not created.
OneRecordPerShowWithEntries ==
    (pc = "done" /\ show_info # <<>>) =>
        IF log_entries = <<>> THEN log_file = log0
        ELSE /\ log_file.kind = "list"
             /\ Len(log_file.items) = Len(log0.items) + 1
             /\ SubSeq(log_file.items, 1, Len(log0.items)) = log0.items
             /\ log_file.items[Len(log_file.items)] = BatchRecord

\* a batch with a log entry ends with its record after an earlier one
OneRecordSeen ==
    /\ pc = "done"
    /\ log_entries # <<>>
    /\ log0.kind = "list"
    /\ log0.items = <<OldRecord>>
    /\ log_file.items = <<OldRecord, BatchRecord>>


(***************************************************************************)
(* The properties of the continuous mapping and of the catalog lookups.    *)
(***************************************************************************)
\* the integer the mapping takes from the answer of the last MapEpisode,
\* <<>> when the call failed, the answer is UNKNOWN or holds no integer
IntegerTaken ==
    IF last.answer.kind # "ok" THEN <<>>
    ELSE IF Strip(last.answer.stdout) = <<"U", "N", "K", "N", "O", "W", "N">> THEN <<>>
    ELSE IF LastNumber(Strip(last.answer.stdout)) = <<>> THEN <<>>
    ELSE <<Int10(LastNumber(Strip(last.answer.stdout)))>>

\* C9: the mapping returns a number only when the integer taken from the
\* answer lies in 1..200, and then that integer; for an integer outside
\* 1..200, an answer without integer, UNKNOWN, a non-zero exit, a timeout
\* or another failure of the call it returns nothing, and the file is
\* numbered season 1, episode detected_episode + (detected_season - 1) * 12,
\* as it is when the call fails.
SanityBound ==
    last.outcome = "mapped" =>
        IF IntegerTaken # <<>> /\ IntegerTaken[1] >= 1 /\ IntegerTaken[1] <= 200
        THEN /\ last.continuous_ep = IntegerTaken
             /\ last.located = <<1, IntegerTaken[1]>>
        ELSE /\ last.continuous_ep = <<>>
             /\ last.located = FallbackPair

\* the answer 201 for S02E03 gives no mapping and the pair S01E15
SanityBoundSeen ==
    /\ last.outcome = "mapped"
    /\ IntegerTaken = <<201>>
    /\ last.detected = <<2, 3>>
    /\ last.continuous_ep = <<>>
    /\ last.located = <<1, 15>>

\* C10 as stated: whenever the search finds the show and the retrieval or
\* the reading of its details fails, the entry returned and cached has an
\* empty season map, total_episodes 0 and is_anime false.
DetailUnavailableGivesDefaults ==
    (lookup.search = "found" /\ lookup.raised) =>
        /\ files[1] \in DOMAIN show_cache
        /\ show_info = <<show_cache[files[1]]>>
        /\ show_info[1].seasons = <<>>
        /\ show_info[1].total_episodes = 0
        /\ ~show_info[1].is_anime

(***************************************************************************)
(* The dry run against the live run, and the log against the directory.    *)
(***************************************************************************)
\* lines 402-432 for the k-th file of the list in the directory d, with the
\* numbering and title the batch made for it
LiveChoice(d, k) ==
    ResolveCollision(d, files[k],
        NameParts(FileNames(ShowName, files[k]), processed[k].final, processed[k].title))

\* the directory after the first k files in a live batch that begins in the
\* directory dir0 with the same list and the same collaborator answers,
\* every rename succeeding
RECURSIVE LiveDir(_)
LiveDir(k) ==
    IF k = 0 THEN dir0
    ELSE LET d == LiveDir(k - 1)
         IN  IF processed[k].outcome = "skipped" THEN d
             ELSE DirAfter(d, files[k], LiveChoice(d, k).new_name,
                           Renamed(FALSE, d, files[k], FALSE))

\* the name that live batch gives the k-th file
LiveName(k) == LiveChoice(LiveDir(k - 1), k).new_name

\* C11 as stated: the new name a dry run makes for a file is the name a
\* live batch gives it for the same directory, file order and collaborator
\* answers, and no two log entries of a dry run have the same new name.
DryRunNamesAreLiveNames ==
    (dry_run /\ pc \in {"loop", "done"}) =>
        /\ Acted => last.new_name = LiveName(idx)
        /\ \A i, j \in DOMAIN log_entries :
              i # j => log_entries[i].new_name # log_entries[j].new_name

\* C12 as stated: at the end of a live batch every log entry is a rename
\* that was performed, the file being under the entry's new name and no
\* longer under its original name, and a file whose rename failed has no
\* entry.
LogEntriesArePerformedRenames ==
    (~dry_run /\ pc = "done" /\ show_info # <<>>) =>
        /\ \A i \in DOMAIN log_entries :
              /\ log_entries[i].new_name \in dir
              /\ log_entries[i].original \notin dir
        /\ \A k \in DOMAIN processed :
              processed[k].outcome = "rename_failed" =>
                  \A i \in DOMAIN log_entries : log_entries[i].original # files[k]
        /\ log_entries # <<>> =>
              log_file.items[Len(log_file.items)].entries = log_entries

=============================================================================
